---- MODULE Spec2Model ----
(***************************************************************************)
(* Blood Donation Management API (src/main.py, src/schemas.py).            *)
(*                                                                         *)
(* The state is the document store: the five collections the handlers     *)
(* write (donor, hospital, inventory, request, notification) and the       *)
(* generator of fresh ObjectIds.  last is the reply to the latest call and *)
(* okCalls counts the successful calls of the handlers that record a       *)
(* notification.                                                           *)
(*                                                                         *)
(* Spec serves one call at a time: every route handler of src/main.py that *)
(* writes the store is one action.  SpecC runs the same handlers one store *)
(* operation per step on the workers of the thread pool (FastAPI runs      *)
(* "def" handlers there), so their store operations interleave; th is the  *)
(* bag of calls in flight.                                                 *)
(*                                                                         *)
(* Document fields that no handler reads or branches on (name, phone,      *)
(* city, blood_group, units, expiry_date, message, meta, updated_at) are   *)
(* not carried, and request bodies are taken as already type-checked; the  *)
(* range check on Donor.age is modelled.                                   *)
(***************************************************************************)
EXTENDS Integers, FiniteSets, Bags, TLC

VARIABLES donor, hospital, inventory, request, notification,
          nextId, last, okCalls, th

store == <<donor, hospital, inventory, request, notification, nextId>>
vars  == <<donor, hospital, inventory, request, notification,
           nextId, last, okCalls, th>>

(* ------------------------------ bounds -------------------------------- *)

\* ObjectIds the store generates for donors, hospitals, inventory records
\* and requests in one behaviour.
MaxId == 3

\* Notification records inserted in one behaviour.
MaxNotes == 3

(* --------------------------- schemas.py ------------------------------- *)

MinAge == 18
MaxAge == 65

\* Ages a client may send: both limits and their outer neighbours.
Ages == {MinAge - 1, MinAge, MaxAge, MaxAge + 1}

None == "None"

DonorEmails    == {"d@x"}
HospitalEmails == {"h1@x", "h2@x"}

\* Request.status : Literal["pending", "approved", "declined"] = "pending"
RequestStatuses == {"pending", "approved", "declined"}

\* UpdateStatus.status : str  (any string; "bogus" stands for all the others)
StatusStrings == RequestStatuses \cup {"bogus"}

(* ------------------------- identifiers -------------------------------- *)

\* An id string sent by a client.  A well-formed one is the 24 hex digits
\* that str() prints for ObjectId n; every other string is malformed.
Forms     == {"hex"}
Malformed == [n |-> 0, form |-> "bad"]
IdStrs    == [n : 1..MaxId, form : Forms] \cup {Malformed}

\* Variant of oid that takes every string for an ObjectId.
oid_lenient(s) == [ok |-> TRUE, v |-> s.n]

\* oid(): the ObjectId of an id string, or HTTPException(400).
oid(s) == IF s.form \in Forms THEN [ok |-> TRUE, v |-> s.n]
                              ELSE [ok |-> FALSE, v |-> 0]

\* str(ObjectId): the id string a handler returns for a new document.
str(o) == [n |-> o, form |-> "hex"]

(* ------------------------- store gateway ------------------------------ *)

\* create_document(collection, data): insert data under a fresh ObjectId.
create_document(coll, data, newId) == coll \cup {[id |-> newId, doc |-> data]}

\* create_document("notification", data).  No handler looks a notification
\* up by its ObjectId or depends on the order of the collection, so the
\* collection is the bag of the records inserted.
record_notification(coll, data) == coll (+) SetToBag({data})

\* collection.find_one({"_id": o}): the matching documents (none or one).
find_one(coll, o) == {d \in coll : d.id = o}

(* ------------------------------ payloads ------------------------------ *)

\* Donor bodies that pass type validation; age is still to be range-checked.
DonorPayloads == [email : DonorEmails, age : Ages, health_ok : BOOLEAN,
                  eligible : BOOLEAN]

HospitalPayloads == [email : HospitalEmails]

InventoryPayloads == [hospital_id : IdStrs]

\* Request bodies; a body without "status" is the one with status "pending".
RequestPayloads == [hospital_id : IdStrs, donor_id : IdStrs,
                    status : RequestStatuses]

NotificationPayloads == [to_email : {None}, subject : {"custom"}]

\* Donor.age : int = Field(..., ge=18, le=65)
DonorValid(p) == p.age >= MinAge /\ p.age <= MaxAge

(* ------------------------------ handlers ------------------------------ *)

(* What a handler does when it runs alone from the current state: the HTTP *)
(* status it answers with, the response body, and the store it leaves.     *)

StoreNow == [donor |-> donor, hospital |-> hospital, inventory |-> inventory,
             request |-> request, notification |-> notification,
             nextId |-> nextId]

Outcome(code, body, st) == [code |-> code, body |-> body, store |-> st]

NoBody == [detail |-> "error"]

\* raise HTTPException(code); 422 is FastAPI's answer to a body the schema
\* rejects
Raise(code) == Outcome(code, NoBody, StoreNow)

\* Variant of compute_eligibility that leaves health_ok out.
eligibility_ignores_health(d) == d.age >= 18 /\ d.age <= 65

compute_eligibility(d) == d.age >= 18 /\ d.age <= 65 /\ d.health_ok

\* POST /donors
register_donor_outcome(p) ==
    IF ~DonorValid(p) THEN Raise(422)
    ELSE LET data == [p EXCEPT !.eligible = compute_eligibility(p)] IN
         Outcome(200, [id |-> str(nextId), eligible |-> data.eligible],
            [StoreNow EXCEPT
               !.donor = create_document(donor, data, nextId),
               !.nextId = nextId + 1,
               !.notification = record_notification(notification,
                    [to_email |-> data.email,
                     subject  |-> "Registration Successful"])])

\* Variant of create_hospital that also records a notification.
create_hospital_notifies(p) ==
    Outcome(200, [id |-> str(nextId)],
        [StoreNow EXCEPT !.hospital = create_document(hospital, p, nextId),
                         !.nextId = nextId + 1,
                         !.notification = record_notification(notification,
                              [to_email |-> p.email, subject |-> "Welcome"])])

\* POST /hospitals
create_hospital_outcome(p) ==
    Outcome(200, [id |-> str(nextId)],
        [StoreNow EXCEPT !.hospital = create_document(hospital, p, nextId),
                         !.nextId = nextId + 1])

\* Variant of the hospital check that never refuses.
hospital_check_skipped(h) == FALSE

\* "if not h": the hospital lookup found nothing.
hospital_missing(h) == h = {}

\* POST /inventory
add_inventory_outcome(p) ==
    LET o == oid(p.hospital_id) IN
    IF ~o.ok THEN Raise(400)
    ELSE IF hospital_missing(find_one(hospital, o.v)) THEN Raise(404)
    ELSE Outcome(200, [id |-> str(nextId)],
            [StoreNow EXCEPT !.inventory = create_document(inventory, p, nextId),
                             !.nextId = nextId + 1])

\* Variant of delete_one that drops the filter.
delete_all(coll, o) == {}

\* collection.delete_one({"_id": o})
delete_one(coll, o) == coll \ find_one(coll, o)

\* DELETE /inventory/{inv_id}
remove_inventory_outcome(inv_id) ==
    LET o == oid(inv_id) IN
    IF ~o.ok THEN Raise(400)
    ELSE LET after == delete_one(inventory, o.v)
             deleted_count == Cardinality(inventory) - Cardinality(after)
         IN  IF deleted_count = 0
             THEN Outcome(404, NoBody, [StoreNow EXCEPT !.inventory = after])
             ELSE Outcome(200, [status |-> "deleted"],
                          [StoreNow EXCEPT !.inventory = after])

\* POST /requests
create_request_outcome(p) ==
    LET d == oid(p.donor_id)
        h == oid(p.hospital_id)
    IN
    IF ~d.ok THEN Raise(400)
    ELSE IF find_one(donor, d.v) = {} THEN Raise(404)
    ELSE IF ~h.ok THEN Raise(400)
    ELSE IF hospital_missing(find_one(hospital, h.v)) THEN Raise(404)
    ELSE LET dn == CHOOSE x \in find_one(donor, d.v) : TRUE IN
         Outcome(200, [id |-> str(nextId)],
            [StoreNow EXCEPT
               !.request = create_document(request, p, nextId),
               !.nextId = nextId + 1,
               !.notification = record_notification(notification,
                    [to_email |-> dn.doc.email, subject |-> "Blood Request"])])

\* GET /requests: q holds the filters that are given; exact match on each
list_requests(q) ==
    {r \in request : \A k \in DOMAIN q : r.doc[k] = q[k]}

\* Variant of the status check that also lets "pending" through.
status_any_known(st) == st \in {"approved", "declined", "pending"}

\* payload.status in ["approved", "declined"]
status_allowed(st) == st \in {"approved", "declined"}

\* update_one({"_id": o}, {"$set": {"status": st, "updated_at": utcnow()}})
\* (updated_at is never read and is not carried)
update_one(coll, o, st) ==
    {IF r.id = o THEN [r EXCEPT !.doc.status = st] ELSE r : r \in coll}

\* f"Request {payload.status}"
status_subject(st) == IF st = "approved" THEN "Request approved"
                      ELSE "Request declined"

\* hospital.get("email") if hospital else None
email_or_none(hs) == IF hs # {} THEN (CHOOSE x \in hs : TRUE).doc.email ELSE None

\* POST /requests/{request_id}/status
update_request_status_outcome(request_id, st) ==
    LET o == oid(request_id) IN
    IF ~status_allowed(st) THEN Raise(400)
    ELSE IF ~o.ok THEN Raise(400)
    ELSE IF find_one(request, o.v) = {} THEN Raise(404)
    ELSE LET updated == update_one(request, o.v, st)
             req == CHOOSE r \in find_one(updated, o.v) : TRUE
             ho  == oid(req.doc.hospital_id)
         IN
         IF ~ho.ok
         THEN Outcome(400, NoBody, [StoreNow EXCEPT !.request = updated])
         ELSE Outcome(200, [status |-> st],
                [StoreNow EXCEPT
                   !.request = updated,
                   !.notification = record_notification(notification,
                        [to_email |-> email_or_none(find_one(hospital, ho.v)),
                         subject  |-> status_subject(st)])])

\* POST /notify
create_notification_outcome(p) ==
    Outcome(200, [id |-> "new"],
        [StoreNow EXCEPT !.notification = record_notification(notification, p)])

(* --------------------------- specification ---------------------------- *)

Reply(op, code, body) == [op |-> op, code |-> code, body |-> body]

\* The handlers that record a notification when they succeed.
Notifying == {"register_donor", "create_request", "update_request_status",
              "create_notification"}

\* One call of a handler, served from start to end: the store it leaves,
\* the reply, and the count of successful calls of the notifying handlers.
Serve(op, out) ==
    /\ out.store.nextId <= MaxId + 1
    /\ BagCardinality(out.store.notification) <= MaxNotes
    /\ donor' = out.store.donor
    /\ hospital' = out.store.hospital
    /\ inventory' = out.store.inventory
    /\ request' = out.store.request
    /\ notification' = out.store.notification
    /\ nextId' = out.store.nextId
    /\ last' = Reply(op, out.code, out.body)
    /\ okCalls' = IF op \in Notifying /\ out.code = 200
                  THEN okCalls + 1 ELSE okCalls
    /\ UNCHANGED th

register_donor(p)        == Serve("register_donor", register_donor_outcome(p))
create_hospital(p)       == Serve("create_hospital", create_hospital_outcome(p))
add_inventory(p)         == Serve("add_inventory", add_inventory_outcome(p))
remove_inventory(i)      == Serve("remove_inventory", remove_inventory_outcome(i))
create_request(p)        == Serve("create_request", create_request_outcome(p))
update_request_status(i, st) ==
    Serve("update_request_status", update_request_status_outcome(i, st))
create_notification(p)   ==
    Serve("create_notification", create_notification_outcome(p))

Init ==
    /\ donor = {} /\ hospital = {} /\ inventory = {} /\ request = {}
    /\ notification = EmptyBag
    /\ nextId = 1
    /\ last = Reply("none", 0, NoBody)
    /\ okCalls = 0
    /\ th = EmptyBag

Next ==
    \/ \E p \in DonorPayloads : register_donor(p)
    \/ \E p \in HospitalPayloads : create_hospital(p)
    \/ \E p \in InventoryPayloads : add_inventory(p)
    \/ \E i \in IdStrs : remove_inventory(i)
    \/ \E p \in RequestPayloads : create_request(p)
    \/ \E i \in IdStrs, st \in StatusStrings : update_request_status(i, st)
    \/ \E p \in NotificationPayloads : create_notification(p)

Spec == Init /\ [][Next]_vars

(* ---------------------- interleaved handlers -------------------------- *)

(* SpecC: the handlers run on the workers of the server's thread pool, one *)
(* store operation per step, so the store operations of calls in flight    *)
(* interleave.  th is the bag of calls in flight, each with the place it   *)
(* has reached and its local variables.  A call that is refused before it  *)
(* writes anything leaves the state as it is.  Replies are not recorded in *)
(* SpecC (last and okCalls stay as they are).                              *)

Workers == {"w1", "w2"}

\* No step of SpecC reads a donor's age, health_ok or eligible, so its
\* clients send one accepted and one refused donor body.
DonorPayloadsC == {p \in DonorPayloads :
                     p.age \in {MinAge - 1, MinAge} /\ p.health_ok /\ p.eligible}

WorkerFree == BagCardinality(th) < Cardinality(Workers)

InFlight == BagToSet(th)

Enter(c)       == th' = th (+) SetToBag({c})
Leave(c)       == th' = th (-) SetToBag({c})
Move(c, d)     == th' = (th (-) SetToBag({c})) (+) SetToBag({d})

Quiet == UNCHANGED <<last, okCalls>>

\* register_donor, line 41: create_document("donor", data)
register_donor_1(p) ==
    /\ WorkerFree /\ Quiet
    /\ IF ~DonorValid(p) THEN UNCHANGED <<store, th>>
       ELSE LET data == [p EXCEPT !.eligible = compute_eligibility(p)] IN
            /\ nextId <= MaxId
            /\ donor' = create_document(donor, data, nextId)
            /\ nextId' = nextId + 1
            /\ Enter([pc |-> "register_donor_2", email |-> data.email])
            /\ UNCHANGED <<hospital, inventory, request, notification>>

\* register_donor, line 43: create_document("notification", ...)
register_donor_2(c) ==
    /\ c.pc = "register_donor_2" /\ Quiet
    /\ BagCardinality(notification) < MaxNotes
    /\ notification' = record_notification(notification,
           [to_email |-> c.email, subject |-> "Registration Successful"])
    /\ Leave(c)
    /\ UNCHANGED <<donor, hospital, inventory, request, nextId>>

\* A handler that does one store operation, served in one step.
ServeQuiet(out) ==
    /\ WorkerFree /\ Quiet
    /\ out.store.nextId <= MaxId + 1
    /\ BagCardinality(out.store.notification) <= MaxNotes
    /\ donor' = out.store.donor
    /\ hospital' = out.store.hospital
    /\ inventory' = out.store.inventory
    /\ request' = out.store.request
    /\ notification' = out.store.notification
    /\ nextId' = out.store.nextId
    /\ UNCHANGED th

create_hospital_c(p)     == ServeQuiet(create_hospital_outcome(p))
remove_inventory_c(i)    == ServeQuiet(remove_inventory_outcome(i))
create_notification_c(p) == ServeQuiet(create_notification_outcome(p))

\* add_inventory, line 82: db["hospital"].find_one(...)
add_inventory_1(p) ==
    LET o == oid(p.hospital_id) IN
    /\ WorkerFree /\ Quiet
    /\ UNCHANGED store
    /\ IF ~o.ok \/ hospital_missing(find_one(hospital, o.v))
       THEN UNCHANGED th
       ELSE Enter([pc |-> "add_inventory_2", p |-> p])

\* add_inventory, line 86: create_document("inventory", payload)
add_inventory_2(c) ==
    /\ c.pc = "add_inventory_2" /\ Quiet
    /\ nextId <= MaxId
    /\ inventory' = create_document(inventory, c.p, nextId)
    /\ nextId' = nextId + 1
    /\ Leave(c)
    /\ UNCHANGED <<donor, hospital, request, notification>>

\* create_request, line 114: db["donor"].find_one(...)
create_request_1(p) ==
    LET d == oid(p.donor_id) IN
    /\ WorkerFree /\ Quiet
    /\ UNCHANGED store
    /\ IF ~d.ok \/ find_one(donor, d.v) = {}
       THEN UNCHANGED th
       ELSE Enter([pc |-> "create_request_2", p |-> p,
                   to_email |-> (CHOOSE x \in find_one(donor, d.v) : TRUE).doc.email])

\* create_request, line 117: db["hospital"].find_one(...)
create_request_2(c) ==
    LET h == oid(c.p.hospital_id) IN
    /\ c.pc = "create_request_2" /\ Quiet
    /\ UNCHANGED store
    /\ IF ~h.ok \/ hospital_missing(find_one(hospital, h.v))
       THEN Leave(c)
       ELSE Move(c, [c EXCEPT !.pc = "create_request_3"])

\* create_request, line 121: create_document("request", payload)
create_request_3(c) ==
    /\ c.pc = "create_request_3" /\ Quiet
    /\ nextId <= MaxId
    /\ request' = create_document(request, c.p, nextId)
    /\ nextId' = nextId + 1
    /\ Move(c, [pc |-> "create_request_4", to_email |-> c.to_email])
    /\ UNCHANGED <<donor, hospital, inventory, notification>>

\* create_request, line 124: create_document("notification", ...)
create_request_4(c) ==
    /\ c.pc = "create_request_4" /\ Quiet
    /\ BagCardinality(notification) < MaxNotes
    /\ notification' = record_notification(notification,
           [to_email |-> c.to_email, subject |-> "Blood Request"])
    /\ Leave(c)
    /\ UNCHANGED <<donor, hospital, inventory, request, nextId>>

\* update_request_status, lines 151-155: db["request"].update_one(...)
update_request_status_1(i, st) ==
    LET o == oid(i) IN
    /\ WorkerFree /\ Quiet
    /\ UNCHANGED <<donor, hospital, inventory, notification, nextId>>
    /\ IF ~status_allowed(st) \/ ~o.ok \/ find_one(request, o.v) = {}
       THEN UNCHANGED <<request, th>>
       ELSE /\ request' = update_one(request, o.v, st)
            /\ Enter([pc |-> "update_request_status_2",
                      request_id |-> i, st |-> st])

\* update_request_status, line 157: db["request"].find_one(...)
update_request_status_2(c) ==
    /\ c.pc = "update_request_status_2" /\ Quiet
    /\ UNCHANGED store
    /\ LET req == CHOOSE r \in find_one(request, oid(c.request_id).v) : TRUE IN
       Move(c, [pc |-> "update_request_status_3",
                request_id |-> c.request_id, st |-> c.st,
                hospital_id |-> req.doc.hospital_id])

\* update_request_status, line 158: db["hospital"].find_one(...)
update_request_status_3(c) ==
    LET ho == oid(c.hospital_id) IN
    /\ c.pc = "update_request_status_3" /\ Quiet
    /\ UNCHANGED store
    /\ IF ~ho.ok THEN Leave(c)
       ELSE Move(c, [pc |-> "update_request_status_4",
                     request_id |-> c.request_id, st |-> c.st,
                     to_email |-> email_or_none(find_one(hospital, ho.v))])

\* update_request_status, line 159: create_document("notification", ...)
update_request_status_4(c) ==
    /\ c.pc = "update_request_status_4" /\ Quiet
    /\ BagCardinality(notification) < MaxNotes
    /\ notification' = record_notification(notification,
           [to_email |-> c.to_email, subject |-> status_subject(c.st)])
    /\ Leave(c)
    /\ UNCHANGED <<donor, hospital, inventory, request, nextId>>

NextC ==
    \/ \E p \in DonorPayloadsC : register_donor_1(p)
    \/ \E c \in InFlight : register_donor_2(c)
    \/ \E p \in HospitalPayloads : create_hospital_c(p)
    \/ \E p \in InventoryPayloads : add_inventory_1(p)
    \/ \E c \in InFlight : add_inventory_2(c)
    \/ \E i \in IdStrs : remove_inventory_c(i)
    \/ \E p \in RequestPayloads : create_request_1(p)
    \/ \E c \in InFlight : create_request_2(c)
    \/ \E c \in InFlight : create_request_3(c)
    \/ \E c \in InFlight : create_request_4(c)
    \/ \E i \in IdStrs, st \in StatusStrings : update_request_status_1(i, st)
    \/ \E c \in InFlight : update_request_status_2(c)
    \/ \E c \in InFlight : update_request_status_3(c)
    \/ \E c \in InFlight : update_request_status_4(c)
    \/ \E p \in NotificationPayloads : create_notification_c(p)

SpecC == Init /\ [][NextC]_vars

(* ------------------------------- claims ------------------------------- *)

\* The id string names a document of the collection.
Resolves(coll, s) == \E d \in coll : str(d.id) = s

\* The status stored for request id i in collection coll.
StatusIn(coll, i) == (CHOOSE r \in coll : r.id = i).doc.status

Terminal == {"approved", "declined"}

\* C1: a stored request's status changes only from pending to approved or
\* from pending to declined; once it is approved or declined no operation
\* changes it again.
C1_StatusIsTerminal ==
    [][\A r \in request :
          StatusIn(request', r.id) # r.doc.status
             => /\ r.doc.status = "pending"
                /\ StatusIn(request', r.id) \in Terminal]_vars

\* C2: every successful create-request stores the new request with status
\* pending, whatever status the payload carries, and a pending request
\* stays pending until a successful update-status call.
C2_CreatedPending ==
    [][/\ (last'.op = "create_request" /\ last'.code = 200)
             => /\ request' # request
                /\ \A r \in request' \ request : r.doc.status = "pending"
       /\ \A r \in request :
             (r.doc.status = "pending" /\ StatusIn(request', r.id) # "pending")
                => (last'.op = "update_request_status" /\ last'.code = 200)]_vars

\* The create-request payload names a donor or a hospital that is not stored.
C3_Unresolved(p) ==
    ~Resolves(donor, p.donor_id) \/ ~Resolves(hospital, p.hospital_id)

\* C3 as stated: a create-request call whose donor_id or hospital_id does
\* not resolve fails with 404 and leaves requests and notifications alone.
C3_UnresolvedIs404 ==
    \A p \in RequestPayloads :
       C3_Unresolved(p) =>
          LET out == create_request_outcome(p) IN
          /\ out.code = 404
          /\ out.store.request = request
          /\ out.store.notification = notification

\* The id the handler rejects: donor_id is looked up before hospital_id.
C3_FirstUnresolved(p) ==
    IF ~Resolves(donor, p.donor_id) THEN p.donor_id ELSE p.hospital_id

\* C3 amended: such a call fails with 404 when the first id that does not
\* resolve is well-formed and with 400 when it is malformed, and in both
\* cases leaves requests and notifications alone.
C3_UnresolvedIs404Or400 ==
    \A p \in RequestPayloads :
       C3_Unresolved(p) =>
          LET out == create_request_outcome(p) IN
          /\ out.code = IF C3_FirstUnresolved(p) = Malformed THEN 400 ELSE 404
          /\ out.store.request = request
          /\ out.store.notification = notification

\* A create-request call has just been refused with 404 although a donor
\* and a hospital are stored.
C3_Witness ==
    /\ last.op = "create_request" /\ last.code = 404
    /\ donor # {} /\ hospital # {}

\* C4: an update-status call whose status is not approved or declined
\* fails with 400 for every request id, changes no stored request and
\* records no notification.
C4_BadStatusIs400 ==
    \A i \in IdStrs, st \in StatusStrings \ {"approved", "declined"} :
       LET out == update_request_status_outcome(i, st) IN
       /\ out.code = 400
       /\ out.store.request = request
       /\ out.store.notification = notification

\* An update-status call has just been refused with 400 while a request is
\* stored.
C4_Witness ==
    /\ last.op = "update_request_status" /\ last.code = 400
    /\ request # {}

\* C6 as stated: add-inventory with a hospital_id that names no stored
\* hospital fails with 404 and stores nothing.
C6_MissingHospitalIs404 ==
    \A p \in InventoryPayloads :
       ~Resolves(hospital, p.hospital_id) =>
          LET out == add_inventory_outcome(p) IN
          out.code = 404 /\ out.store = StoreNow

\* C6 amended: it fails with 404 when the id is well-formed, with 400 when
\* it is malformed, and stores nothing in both cases.
C6_MissingHospitalIs404Or400 ==
    \A p \in InventoryPayloads :
       ~Resolves(hospital, p.hospital_id) =>
          LET out == add_inventory_outcome(p) IN
          /\ out.code = IF p.hospital_id = Malformed THEN 400 ELSE 404
          /\ out.store = StoreNow

\* An add-inventory call has just been refused with 404 while a hospital is
\* stored.
C6_Witness ==
    /\ last.op = "add_inventory" /\ last.code = 404
    /\ hospital # {}

\* Delete-inventory removed exactly the record named i and nothing else.
C7_RemovedOnly(out, i) ==
    /\ out.code = 200
    /\ out.store = [StoreNow EXCEPT
                      !.inventory = {d \in inventory : str(d.id) # i}]
    /\ Cardinality(out.store.inventory) = Cardinality(inventory) - 1

\* C7 as stated: delete-inventory with an id that matches no inventory
\* record answers 404 and changes nothing; with an id that matches it
\* removes that one record and changes nothing else.
C7_DeleteOneOr404 ==
    \A i \in IdStrs :
       LET out == remove_inventory_outcome(i) IN
       IF Resolves(inventory, i)
       THEN C7_RemovedOnly(out, i)
       ELSE out.code = 404 /\ out.store = StoreNow

\* C7 amended: with an id that matches no record it answers 404 when the
\* id is well-formed and 400 when it is malformed.
C7_DeleteOneOr404Or400 ==
    \A i \in IdStrs :
       LET out == remove_inventory_outcome(i) IN
       IF Resolves(inventory, i)
       THEN C7_RemovedOnly(out, i)
       ELSE /\ out.code = IF i = Malformed THEN 400 ELSE 404
            /\ out.store = StoreNow

\* An inventory record has just been deleted, another one is still stored,
\* and so are the hospital and the other documents.
C7_Witness ==
    /\ last.op = "remove_inventory" /\ last.code = 200
    /\ inventory # {} /\ hospital # {}

\* C8: every stored donor has age in [18,65] and eligible = health_ok;
\* registration refuses an age outside [18,65] and stores nothing, and for
\* an accepted payload it stores and returns eligible = health_ok whatever
\* eligible value the payload carried.
C8_EligibleIsHealthOk ==
    /\ \A d \in donor : /\ d.doc.age >= 18 /\ d.doc.age <= 65
                        /\ d.doc.eligible = d.doc.health_ok
    /\ \A p \in DonorPayloads :
          LET out == register_donor_outcome(p) IN
          IF p.age < 18 \/ p.age > 65
          THEN out.code # 200 /\ out.store = StoreNow
          ELSE /\ out.code = 200
               /\ \E d \in out.store.donor \ donor :
                     /\ str(d.id) = out.body.id
                     /\ d.doc.eligible = p.health_ok
                     /\ out.body.eligible = d.doc.eligible

\* A donor in poor health has just been registered, and answered
\* eligible = false.
C8_Witness ==
    /\ last.op = "register_donor" /\ last.code = 200
    /\ last.body.eligible = FALSE
    /\ \E d \in donor : str(d.id) = last.body.id /\ ~d.doc.health_ok

\* C9: a step adds one notification when it is a successful call of
\* register-donor, create-request, update-status or create-notification and
\* none otherwise, and never removes or changes one; so the number of
\* notifications is the number of successful calls of those handlers.
C9_OneNotificationPerSuccess ==
    /\ [](BagCardinality(notification) = okCalls)
    /\ [][/\ notification \sqsubseteq notification'
          /\ BagCardinality(notification') - BagCardinality(notification)
                = IF last'.op \in Notifying /\ last'.code = 200
                  THEN 1 ELSE 0]_vars

\* Three notifications are stored after a successful update-status call.
C9_Witness ==
    /\ last.op = "update_request_status" /\ last.code = 200
    /\ BagCardinality(notification) = 3

\* C5: when an update-status(approved) call completes, whatever other
\* calls' store operations ran in between, it has added exactly one
\* notification, addressed to the email of the hospital the request names
\* (to nobody when that hospital is not found), and the status read of the
\* request returns approved.
C5_ApprovedAndNotifiedOnce ==
    [][\A c \in InFlight :
          (/\ c.pc = "update_request_status_4" /\ c.st = "approved"
           /\ th' = th (-) SetToBag({c}))
          => LET i  == oid(c.request_id).v
                 r  == CHOOSE x \in request : x.id = i
                 hs == {h \in hospital : str(h.id) = r.doc.hospital_id}
             IN  /\ notification' = notification (+) SetToBag(
                       {[to_email |-> email_or_none(hs),
                         subject  |-> "Request approved"]})
                 /\ \E x \in list_requests([status |-> "approved"])' : x.id = i]_vars

\* C10: every stored inventory record names a stored hospital and every
\* stored request names a stored donor and a stored hospital, however the
\* handlers' store operations interleave.
C10_ReferencesResolve ==
    /\ \A v \in inventory : Resolves(hospital, v.doc.hospital_id)
    /\ \A r \in request : /\ Resolves(donor, r.doc.donor_id)
                          /\ Resolves(hospital, r.doc.hospital_id)

\* An inventory record is stored while a create-request call that has
\* passed both existence checks has its insert still to do.
C10_Witness ==
    /\ inventory # {}
    /\ \E c \in InFlight : c.pc = "create_request_3"

====
